---- MODULE Spec2Model ----
(***************************************************************************)
(* Model of the checkpointed batch scheduler of retry_failures_batch.py:   *)
(* main(), load_checkpoint(), save_checkpoint(), append_results() and the  *)
(* outcome of extract_url_data() / create_driver().                        *)
(*                                                                         *)
(* Durable state: the checkpoint file and the result file.  A file is      *)
(* "missing", "ok" (holds a complete JSON document) or "corrupt" (opened   *)
(* for writing, hence truncated, and not completely written: json.load     *)
(* fails on it).  Volatile state: the local variables of main().  The      *)
(* process can be killed between any two steps (Crash); a write can fail   *)
(* with an I/O error, which save_checkpoint / append_results catch and log.*)
(*                                                                         *)
(* A second specification, RetrySpec, models retry_failures.py: main(),    *)
(* the retrying extract_url_data() and wait_for_cloudflare_clear() with    *)
(* its clock.  The two scripts share the names of several locals; a        *)
(* variable the other script owns keeps its initial value.                 *)
(***************************************************************************)
EXTENDS Integers, Sequences, FiniteSets, TLC

VARIABLES
    all_urls,        \* the work list read from FAILED_URLS_FILE (fixed)
    urlsFileExists,  \* os.path.exists(FAILED_URLS_FILE)
    conf,            \* [BATCH_SIZE, SAVE_INTERVAL] (fixed during a behaviour)
    ckptFile,        \* CHECKPOINT_FILE: [st, last_index, processed_urls]
    outFile,         \* OUTPUT_FILE: [st, recs]
    pc,              \* position of main()
    start_index, end_index, processed_urls, idx, buffer,
    successful, failed,
    driver,          \* main's `driver` is not None
    flushKind,       \* "interval" (lines 504-507) or "final" (lines 530-534)
    existing,        \* append_results' local list, between open('w') and dump
    sessions,        \* browser sessions currently open
    summary,         \* the counters the batch summary logs (lines 536-544)
    \* ---- history variables (never read by the program) ----
    crashes, ioFails, leaks,   \* faults injected so far, by kind
    nExtract,        \* per position: records produced for it in the current run
    saves,           \* last_index arguments of save_checkpoint in this run
    lost,            \* positions whose result was only in the buffer at the crash
    again,           \* per position: records produced for it since the crash
    sinkDurable,     \* contents of the last completed write of the result file
    ckptPrev,        \* what load_checkpoint returned before the last save began
    outAtStart,      \* the result file when the current run started
    ckptAtStart,     \* the checkpoint file when the current run started
    lastItem,        \* [pos, path] of the item whose iteration ended last
    interrupted,     \* identifiers of the flush a crash cut after its append
    \* ---- retry_failures.py ----
    remaining,       \* main: the urls not yet in the result file
    batch,           \* main: results not yet saved
    still_failed,    \* main: counter
    attempt,         \* extract_url_data: the loop variable
    ret_data,        \* main: `data`, what extract_url_data returned
    elapsed,         \* wait_for_cloudflare_clear: time.time() - start_time
    already_refreshed,
    \* ---- history variables of retry_failures.py ----
    itemHist,        \* the item in progress: attempts, exceptions, refreshes
    waitHist,        \* the wait in progress or last returned: refreshes, result
    \* ---- check_status.py ----
    status           \* main: its locals and what it printed

vars == <<all_urls, urlsFileExists, conf, ckptFile, outFile, pc, start_index,
          end_index, processed_urls, idx, buffer, successful, failed, driver,
          flushKind, existing, sessions, summary, crashes, ioFails, leaks,
          nExtract, saves, lost, again, sinkDurable, ckptPrev, outAtStart,
          ckptAtStart, lastItem, interrupted, remaining, batch, still_failed, attempt,
          ret_data, elapsed, already_refreshed, itemHist, waitHist, status>>

(* ------------------------------ bounds -------------------------------- *)
\* faults (crashes, failed writes, create_driver failing after the browser
\* started) injected in one behaviour
MaxFaults == 1

(* --------------------------- configuration ---------------------------- *)
\* BATCH_SIZE = 100 and SAVE_INTERVAL = 5 in the source; the model runs the
\* same code on short work lists with small values of the two settings.
Setups == { [urls |-> <<"a", "b", "a">>, BATCH_SIZE |-> 2, SAVE_INTERVAL |-> 2],
            [urls |-> <<"a", "b", "a">>, BATCH_SIZE |-> 3, SAVE_INTERVAL |-> 2],
            [urls |-> <<"a", "b">>,      BATCH_SIZE |-> 2, SAVE_INTERVAL |-> 1],
            [urls |-> <<>>,              BATCH_SIZE |-> 2, SAVE_INTERVAL |-> 2] }
BATCH_SIZE == conf.BATCH_SIZE
SAVE_INTERVAL == conf.SAVE_INTERVAL

NoError == "<unset>"

Min(a, b) == IF a <= b THEN a ELSE b

IsPrefix(s, t) == Len(s) <= Len(t) /\ SubSeq(t, 1, Len(s)) = s

Ids(recs) == { recs[i].url : i \in 1..Len(recs) }

(* ---------------------------- render session -------------------------- *)
\* What the rendered document gives to one call of extract_url_data.
\* A page that loads and has only the h2 marker, one that loads and has no
\* marker, one behind a challenge that never clears.
Pages == { [load |-> "ok", cf |-> "clear", h1 |-> "", h2 |-> "t", content |-> ""],
           [load |-> "ok", cf |-> "clear", h1 |-> "", h2 |-> "",  content |-> ""],
           [load |-> "ok", cf |-> "stuck", h1 |-> "", h2 |-> "",  content |-> ""] }

ErrorRecord(url, msg) ==
    [url |-> url, h1 |-> "", h2 |-> "", content |-> "", error |-> msg]

\* extract_url_data(driver, url): never raises, every exception becomes a record
extract_url_data(url, page) ==
    IF page.load = "raise" THEN ErrorRecord(url, "exception in extract")
    ELSE IF page.cf = "stuck" THEN ErrorRecord(url, "Cloudflare timeout")
    ELSE [url |-> url, h1 |-> page.h1, h2 |-> page.h2, content |-> page.content,
          error |-> NoError]

\* every record counts as a success
HasContent_always(data) == TRUE

\* the test of line 492
HasContent(data) == data.h1 # "" \/ data.h2 # "" \/ data.content # ""

\* check_status.count_success_failure(results), lines 39-44
count_success_failure(results) ==
    LET successful_count ==
          Cardinality({ i \in 1..Len(results) :
                          \/ results[i].h1 # ""
                          \/ results[i].h2 # ""
                          \/ results[i].content # "" })
    IN [successful |-> successful_count,
        failed |-> Len(results) - successful_count]

(* ------------------------------ files --------------------------------- *)
ZeroCheckpoint == [last_index |-> 0, processed_urls |-> {}]

\* a load that parses whatever a torn write left in the file
LoadCheckpoint_lenient(f) ==
    IF f.st \in {"ok", "corrupt"}
    THEN [last_index |-> f.last_index, processed_urls |-> f.processed_urls]
    ELSE ZeroCheckpoint

\* load_checkpoint() applied to a file: a missing file and a file json.load
\* fails on give the zero checkpoint
LoadCheckpoint(f) ==
    IF f.st = "ok"
    THEN [last_index |-> f.last_index, processed_urls |-> f.processed_urls]
    ELSE ZeroCheckpoint

load_checkpoint == LoadCheckpoint(ckptFile)

\* the `existing` list append_results reads: [] for a missing or unparsable file
ReadExisting(f) == IF f.st = "ok" THEN f.recs ELSE <<>>

\* existing.extend(results)
Merge(old, results) == old \o results

\* the interval save one position too far / the final save at the start
IntervalSaveIndex_off == start_index + idx + 1
FinalSaveIndex_start == start_index

\* the last_index argument of the two save_checkpoint calls
IntervalSaveIndex == start_index + idx
FinalSaveIndex == end_index

SaveIndex == IF flushKind = "interval" THEN IntervalSaveIndex ELSE FinalSaveIndex

\* no position is ever skipped
AlreadyProcessed_never(url) == FALSE

\* line 479
AlreadyProcessed(url) == url \in processed_urls

\* the set is replaced by the identifier
MarkProcessed_only(url) == {url}

\* the identifier is not added to the set
MarkProcessed_forget(url) == processed_urls

\* lines 501 and 520: processed_urls.add(url)
MarkProcessed(url) == processed_urls \cup {url}

\* the existence of the work list file is not tested
FileMissing_ignored == FALSE

\* line 439
FileMissing == ~urlsFileExists

\* the run returns early only when the checkpoint is past the end
NothingRemains_gt(start, total) == start > total

\* line 460
NothingRemains(start, total) == start >= total

\* the batch is one position long
EndIndex_one(start, total) == Min(start + 1, total)

\* line 465
EndIndex(start, total) == Min(start + BATCH_SIZE, total)

batch_urls == SubSeq(all_urls, start_index + 1, end_index)

CurUrl == all_urls[start_index + idx]

\* line 504
BufferFull(buf) == Len(buf) >= SAVE_INTERVAL

NoSummary == [successful |-> 0, failed |-> 0, total_processed |-> 0,
              next_start |-> 0, logged |-> FALSE]

\* lines 536-544: what main() logs after the final checkpoint save
BatchSummary ==
    [successful |-> successful, failed |-> failed,
     total_processed |-> Len(batch_urls), next_start |-> end_index,
     logged |-> TRUE]

(* ------------------------------- Init --------------------------------- *)
ZeroCount == [p \in 1..Len(all_urls) |-> 0]

NoData == [url |-> "", h1 |-> "", h2 |-> "", content |-> "", error |-> NoError]

\* a field whose element the document does not have
Absent == "<absent>"

NoPage == [h1 |-> Absent, h2 |-> Absent, content |-> Absent]

NoItem == [failed0 |-> 0, succ0 |-> 0, attempts |-> 0, raised |-> 0,
           creates |-> 0, refreshes |-> 0, refreshRaised |-> FALSE,
           lastExc |-> NoError, path |-> "none", page |-> NoPage]

NoWait == [calls |-> 0, ret |-> "none"]

\* the variables of retry_failures.py while that script is not running
\* the locals of check_status.main() while it is not running
NoStatus == [total_urls |-> 0, last_index |-> 0, processed_count |-> 0,
             successful |-> 0, failed |-> 0, remaining |-> 0,
             batches_remaining |-> 0, next_start |-> 0, next_end |-> 0,
             next_size |-> 0, ret |-> "none"]

RetryRest ==
    /\ status = NoStatus
    /\ remaining = <<>> /\ batch = <<>> /\ still_failed = 0 /\ attempt = 0
    /\ ret_data = NoData /\ elapsed = 0 /\ already_refreshed = FALSE
    /\ itemHist = NoItem /\ waitHist = NoWait

Init ==
    /\ \E s \in Setups :
         /\ all_urls = s.urls
         /\ conf = [BATCH_SIZE |-> s.BATCH_SIZE, SAVE_INTERVAL |-> s.SAVE_INTERVAL]
    /\ urlsFileExists \in BOOLEAN
    /\ ckptFile = [st |-> "missing", last_index |-> 0, processed_urls |-> {}]
    /\ outFile = [st |-> "missing", recs |-> <<>>]
    /\ pc = "idle"
    /\ start_index = 0 /\ end_index = 0 /\ processed_urls = {} /\ idx = 0
    /\ buffer = <<>> /\ successful = 0 /\ failed = 0 /\ driver = FALSE
    /\ flushKind = "none" /\ existing = <<>> /\ sessions = 0
    /\ summary = NoSummary
    /\ crashes = 0 /\ ioFails = 0 /\ leaks = 0
    /\ nExtract = ZeroCount /\ saves = <<>> /\ lost = {}
    /\ again = ZeroCount /\ sinkDurable = <<>> /\ ckptPrev = ZeroCheckpoint
    /\ outAtStart = outFile
    /\ ckptAtStart = ckptFile
    /\ lastItem = [pos |-> 0, path |-> "none"]
    /\ interrupted = {}
    /\ RetryRest

Faults == crashes + ioFails + leaks
MayFail == Faults < MaxFaults

\* the local variables of main() when no run is in progress
ResetLocals ==
    /\ start_index' = 0 /\ end_index' = 0 /\ processed_urls' = {} /\ idx' = 0
    /\ buffer' = <<>> /\ successful' = 0 /\ failed' = 0 /\ driver' = FALSE
    /\ flushKind' = "none" /\ existing' = <<>> /\ summary' = NoSummary

\* the history of one run
ResetRun ==
    /\ nExtract' = ZeroCount /\ saves' = <<>>
    /\ outAtStart' = outFile
    /\ ckptAtStart' = ckptFile
    /\ lastItem' = [pos |-> 0, path |-> "none"]

(* ------------------------------ main() -------------------------------- *)
\* lines 439-441: the work list file does not exist
StartNoFile ==
    /\ pc = "idle" /\ FileMissing
    /\ pc' = "done"
    /\ UNCHANGED <<all_urls, urlsFileExists, conf, ckptFile, outFile,
                   start_index, end_index, processed_urls, idx, buffer,
                   successful, failed, driver, flushKind, existing, sessions,
                   summary, crashes, ioFails, leaks, nExtract, saves, lost,
                   again, sinkDurable, ckptPrev, outAtStart, ckptAtStart,
                   lastItem, interrupted, remaining, batch, still_failed,
                   attempt, ret_data, elapsed, already_refreshed, itemHist,
                   waitHist, status>>

\* lines 443-462: checkpoint at or past the end of the list
StartNothingToDo ==
    /\ pc = "idle" /\ ~FileMissing
    /\ NothingRemains(load_checkpoint.last_index, Len(all_urls))
    /\ start_index' = load_checkpoint.last_index
    /\ processed_urls' = load_checkpoint.processed_urls
    /\ pc' = "done"
    /\ UNCHANGED <<all_urls, urlsFileExists, conf, ckptFile, outFile, end_index,
                   idx, buffer, successful, failed, driver, flushKind, existing,
                   sessions, summary, crashes, ioFails, leaks, nExtract, saves,
                   lost, again, sinkDurable, ckptPrev, outAtStart, ckptAtStart,
                   lastItem, interrupted, remaining, batch, still_failed,
                   attempt, ret_data, elapsed, already_refreshed, itemHist,
                   waitHist, status>>

\* lines 443-473: a batch remains
StartBatch ==
    /\ pc = "idle" /\ ~FileMissing
    /\ ~NothingRemains(load_checkpoint.last_index, Len(all_urls))
    /\ start_index' = load_checkpoint.last_index
    /\ processed_urls' = load_checkpoint.processed_urls
    /\ end_index' = EndIndex(load_checkpoint.last_index, Len(all_urls))
    /\ idx' = 0 /\ successful' = 0 /\ failed' = 0 /\ buffer' = <<>>
    /\ pc' = "loop"
    /\ UNCHANGED <<all_urls, urlsFileExists, conf, ckptFile, outFile, driver,
                   flushKind, existing, sessions, summary, crashes, ioFails,
                   leaks, nExtract, saves, lost, again, sinkDurable, ckptPrev,
                   outAtStart, ckptAtStart, lastItem, interrupted, remaining,
                   batch, still_failed, attempt, ret_data, elapsed,
                   already_refreshed, itemHist, waitHist, status>>

\* lines 475-481: the identifier is in processed_urls: continue
Skip ==
    /\ pc = "loop" /\ idx < Len(batch_urls)
    /\ AlreadyProcessed(all_urls[start_index + idx + 1])
    /\ idx' = idx + 1
    /\ lastItem' = [pos |-> start_index + idx + 1, path |-> "skip"]
    /\ UNCHANGED <<all_urls, urlsFileExists, conf, ckptFile, outFile, pc,
                   start_index, end_index, processed_urls, buffer, successful,
                   failed, driver, flushKind, existing, sessions, summary,
                   crashes, ioFails, leaks, nExtract, saves, lost, again,
                   sinkDurable, ckptPrev, outAtStart, ckptAtStart, interrupted,
                   remaining, batch, still_failed, attempt, ret_data, elapsed,
                   already_refreshed, itemHist, waitHist, status>>

\* lines 483-486: the item is processed; driver = None
BeginItem ==
    /\ pc = "loop" /\ idx < Len(batch_urls)
    /\ ~AlreadyProcessed(all_urls[start_index + idx + 1])
    /\ idx' = idx + 1
    /\ driver' = FALSE
    /\ pc' = "create"
    /\ UNCHANGED <<all_urls, urlsFileExists, conf, ckptFile, outFile,
                   start_index, end_index, processed_urls, buffer, successful,
                   failed, flushKind, existing, sessions, summary, crashes,
                   ioFails, leaks, nExtract, saves, lost, again, sinkDurable,
                   ckptPrev, outAtStart, ckptAtStart, lastItem, interrupted,
                   remaining, batch, still_failed, attempt, ret_data, elapsed,
                   already_refreshed, itemHist, waitHist, status>>

\* line 488, create_driver() returns a driver
CreateDriverOk ==
    /\ pc = "create"
    /\ driver' = TRUE
    /\ sessions' = sessions + 1
    /\ pc' = "extract"
    /\ UNCHANGED <<all_urls, urlsFileExists, conf, ckptFile, outFile,
                   start_index, end_index, processed_urls, idx, buffer,
                   successful, failed, flushKind, existing, summary, crashes,
                   ioFails, leaks, nExtract, saves, lost, again, sinkDurable,
                   ckptPrev, outAtStart, ckptAtStart, lastItem, interrupted,
                   remaining, batch, still_failed, attempt, ret_data, elapsed,
                   already_refreshed, itemHist, waitHist, status>>

\* line 488, create_driver() raises before webdriver.Chrome() started a
\* browser (lines 170-264: binary not found, ChromeDriver not installed)
CreateDriverRaisesEarly ==
    /\ pc = "create"
    /\ pc' = "except"
    /\ UNCHANGED <<all_urls, urlsFileExists, conf, ckptFile, outFile,
                   start_index, end_index, processed_urls, idx, buffer,
                   successful, failed, driver, flushKind, existing, sessions,
                   summary, crashes, ioFails, leaks, nExtract, saves, lost,
                   again, sinkDurable, ckptPrev, outAtStart, ckptAtStart,
                   lastItem, interrupted, remaining, batch, still_failed,
                   attempt, ret_data, elapsed, already_refreshed, itemHist,
                   waitHist, status>>

\* line 488, create_driver() raises in stealth() (lines 270-277), after
\* webdriver.Chrome() started the browser: main's driver stays None
CreateDriverRaisesLate ==
    /\ pc = "create" /\ MayFail
    /\ leaks' = leaks + 1
    /\ sessions' = sessions + 1
    /\ pc' = "except"
    /\ UNCHANGED <<all_urls, urlsFileExists, conf, ckptFile, outFile,
                   start_index, end_index, processed_urls, idx, buffer,
                   successful, failed, driver, flushKind, existing, summary,
                   crashes, ioFails, nExtract, saves, lost, again, sinkDurable,
                   ckptPrev, outAtStart, ckptAtStart, lastItem, interrupted,
                   remaining, batch, still_failed, attempt, ret_data, elapsed,
                   already_refreshed, itemHist, waitHist, status>>

\* lines 489-504: extract, classify, buffer, mark processed, test the interval
Extract ==
    /\ pc = "extract"
    /\ \E page \in Pages :
         LET data == extract_url_data(CurUrl, page)
             buf == Append(buffer, data)
         IN /\ IF HasContent(data)
               THEN successful' = successful + 1 /\ failed' = failed
               ELSE failed' = failed + 1 /\ successful' = successful
            /\ buffer' = buf
            /\ processed_urls' = MarkProcessed(CurUrl)
            /\ IF BufferFull(buf)
               THEN pc' = "append" /\ flushKind' = "interval"
               ELSE pc' = "finally" /\ flushKind' = flushKind
    /\ nExtract' = [nExtract EXCEPT ![start_index + idx] = @ + 1]
    /\ again' = [again EXCEPT ![start_index + idx] = @ + 1]
    /\ lastItem' = [pos |-> start_index + idx, path |-> "try"]
    /\ UNCHANGED <<all_urls, urlsFileExists, conf, ckptFile, outFile,
                   start_index, end_index, idx, driver, existing, sessions,
                   summary, crashes, ioFails, leaks, saves, lost, sinkDurable,
                   ckptPrev, outAtStart, ckptAtStart, interrupted, remaining,
                   batch, still_failed, attempt, ret_data, elapsed,
                   already_refreshed, itemHist, waitHist, status>>

\* lines 509-520: the except clause of the item
Except ==
    /\ pc = "except"
    /\ failed' = failed + 1
    /\ buffer' = Append(buffer, ErrorRecord(CurUrl, "exception in create_driver"))
    /\ processed_urls' = MarkProcessed(CurUrl)
    /\ pc' = "finally"
    /\ nExtract' = [nExtract EXCEPT ![start_index + idx] = @ + 1]
    /\ again' = [again EXCEPT ![start_index + idx] = @ + 1]
    /\ lastItem' = [pos |-> start_index + idx, path |-> "except"]
    /\ UNCHANGED <<all_urls, urlsFileExists, conf, ckptFile, outFile,
                   start_index, end_index, idx, successful, driver, flushKind,
                   existing, sessions, summary, crashes, ioFails, leaks, saves,
                   lost, sinkDurable, ckptPrev, outAtStart, ckptAtStart,
                   interrupted, remaining, batch, still_failed, attempt,
                   ret_data, elapsed, already_refreshed, itemHist, waitHist,
                   status>>

\* lines 521-527: the finally clause of the item
Finally ==
    /\ pc = "finally"
    /\ IF driver THEN sessions' = sessions - 1 ELSE sessions' = sessions
    /\ driver' = FALSE
    /\ pc' = "loop"
    /\ UNCHANGED <<all_urls, urlsFileExists, conf, ckptFile, outFile,
                   start_index, end_index, processed_urls, idx, buffer,
                   successful, failed, flushKind, existing, summary, crashes,
                   ioFails, leaks, nExtract, saves, lost, again, sinkDurable,
                   ckptPrev, outAtStart, ckptAtStart, lastItem, interrupted,
                   remaining, batch, still_failed, attempt, ret_data, elapsed,
                   already_refreshed, itemHist, waitHist, status>>

\* lines 529-531: the loop is over, a non-empty buffer is appended
FinalFlush ==
    /\ pc = "loop" /\ idx = Len(batch_urls)
    /\ flushKind' = "final"
    /\ pc' = IF buffer # <<>> THEN "append" ELSE "save"
    /\ UNCHANGED <<all_urls, urlsFileExists, conf, ckptFile, outFile,
                   start_index, end_index, processed_urls, idx, buffer,
                   successful, failed, driver, existing, sessions, summary,
                   crashes, ioFails, leaks, nExtract, saves, lost, again,
                   sinkDurable, ckptPrev, outAtStart, ckptAtStart, lastItem,
                   interrupted, remaining, batch, still_failed, attempt,
                   ret_data, elapsed, already_refreshed, itemHist, waitHist,
                   status>>

(* --------------------------- append_results --------------------------- *)
\* lines 412-425: read the file, extend, open(OUTPUT_FILE, 'w') truncates it
AppendOpen ==
    /\ pc = "append"
    /\ existing' = Merge(ReadExisting(outFile), buffer)
    /\ outFile' = [st |-> "corrupt", recs |-> <<>>]
    /\ pc' = "dump"
    /\ UNCHANGED <<all_urls, urlsFileExists, conf, ckptFile, start_index,
                   end_index, processed_urls, idx, buffer, successful, failed,
                   driver, flushKind, sessions, summary, crashes, ioFails, leaks,
                   nExtract, saves, lost, again, sinkDurable, ckptPrev,
                   outAtStart, ckptAtStart, lastItem, interrupted, remaining,
                   batch, still_failed, attempt, ret_data, elapsed,
                   already_refreshed, itemHist, waitHist, status>>

\* lines 425, 428-429: open() raises, the error is logged, the file is untouched
AppendOpenFails ==
    /\ pc = "append" /\ MayFail
    /\ ioFails' = ioFails + 1
    /\ pc' = "save"
    /\ UNCHANGED <<all_urls, urlsFileExists, conf, ckptFile, outFile,
                   start_index, end_index, processed_urls, idx, buffer,
                   successful, failed, driver, flushKind, existing, sessions,
                   summary, crashes, leaks, nExtract, saves, lost, again,
                   sinkDurable, ckptPrev, outAtStart, ckptAtStart, lastItem,
                   interrupted, remaining, batch, still_failed, attempt,
                   ret_data, elapsed, already_refreshed, itemHist, waitHist,
                   status>>

\* lines 426-427: json.dump completes and the file is closed
AppendDump ==
    /\ pc = "dump"
    /\ outFile' = [st |-> "ok", recs |-> existing]
    /\ sinkDurable' = existing
    /\ existing' = <<>>
    /\ pc' = "save"
    /\ UNCHANGED <<all_urls, urlsFileExists, conf, ckptFile, start_index,
                   end_index, processed_urls, idx, buffer, successful, failed,
                   driver, flushKind, sessions, summary, crashes, ioFails, leaks,
                   nExtract, saves, lost, again, ckptPrev, outAtStart,
                   ckptAtStart, lastItem, interrupted, remaining, batch,
                   still_failed, attempt, ret_data, elapsed, already_refreshed,
                   itemHist, waitHist, status>>

\* lines 426, 428-429: json.dump raises, the error is logged
AppendDumpFails ==
    /\ pc = "dump" /\ MayFail
    /\ ioFails' = ioFails + 1
    /\ existing' = <<>>
    /\ pc' = "save"
    /\ UNCHANGED <<all_urls, urlsFileExists, conf, ckptFile, outFile,
                   start_index, end_index, processed_urls, idx, buffer,
                   successful, failed, driver, flushKind, sessions, summary,
                   crashes, leaks, nExtract, saves, lost, again, sinkDurable,
                   ckptPrev, outAtStart, ckptAtStart, lastItem, interrupted,
                   remaining, batch, still_failed, attempt, ret_data, elapsed,
                   already_refreshed, itemHist, waitHist, status>>

(* --------------------------- save_checkpoint -------------------------- *)
AfterSave == IF flushKind = "interval" THEN "clear" ELSE "done"

\* save_checkpoint returned: after the final one the summary is logged
ReturnFromSave ==
    /\ pc' = AfterSave
    /\ summary' = IF flushKind = "final" THEN BatchSummary ELSE summary

\* lines 390-396: open(CHECKPOINT_FILE, 'w') truncates the file.  The fields
\* of a corrupt file are the data of the write in progress.
SaveOpen ==
    /\ pc = "save"
    /\ saves' = Append(saves, SaveIndex)
    /\ ckptPrev' = load_checkpoint
    /\ ckptFile' = [st |-> "corrupt", last_index |-> SaveIndex,
                    processed_urls |-> processed_urls]
    /\ pc' = "dumpckpt"
    /\ UNCHANGED <<all_urls, urlsFileExists, conf, outFile, start_index,
                   end_index, processed_urls, idx, buffer, successful, failed,
                   driver, flushKind, existing, sessions, summary, crashes,
                   ioFails, leaks, nExtract, lost, again, sinkDurable,
                   outAtStart, ckptAtStart, lastItem, interrupted, remaining,
                   batch, still_failed, attempt, ret_data, elapsed,
                   already_refreshed, itemHist, waitHist, status>>

\* lines 396, 399-400: open() raises, the error is logged
SaveOpenFails ==
    /\ pc = "save" /\ MayFail
    /\ ioFails' = ioFails + 1
    /\ saves' = Append(saves, SaveIndex)
    /\ ReturnFromSave
    /\ UNCHANGED <<all_urls, urlsFileExists, conf, ckptFile, outFile,
                   start_index, end_index, processed_urls, idx, buffer,
                   successful, failed, driver, flushKind, existing, sessions,
                   crashes, leaks, nExtract, lost, again, sinkDurable, ckptPrev,
                   outAtStart, ckptAtStart, lastItem, interrupted, remaining,
                   batch, still_failed, attempt, ret_data, elapsed,
                   already_refreshed, itemHist, waitHist, status>>

\* lines 397-398: json.dump completes and the file is closed
SaveDump ==
    /\ pc = "dumpckpt"
    /\ ckptFile' = [ckptFile EXCEPT !.st = "ok"]
    /\ ReturnFromSave
    /\ UNCHANGED <<all_urls, urlsFileExists, conf, outFile, start_index,
                   end_index, processed_urls, idx, buffer, successful, failed,
                   driver, flushKind, existing, sessions, crashes, ioFails,
                   leaks, nExtract, saves, lost, again, sinkDurable, ckptPrev,
                   outAtStart, ckptAtStart, lastItem, interrupted, remaining,
                   batch, still_failed, attempt, ret_data, elapsed,
                   already_refreshed, itemHist, waitHist, status>>

\* lines 397, 399-400: json.dump raises, the error is logged
SaveDumpFails ==
    /\ pc = "dumpckpt" /\ MayFail
    /\ ioFails' = ioFails + 1
    /\ ReturnFromSave
    /\ UNCHANGED <<all_urls, urlsFileExists, conf, ckptFile, outFile,
                   start_index, end_index, processed_urls, idx, buffer,
                   successful, failed, driver, flushKind, existing, sessions,
                   crashes, leaks, nExtract, saves, lost, again, sinkDurable,
                   ckptPrev, outAtStart, ckptAtStart, lastItem, interrupted,
                   remaining, batch, still_failed, attempt, ret_data, elapsed,
                   already_refreshed, itemHist, waitHist, status>>

\* line 507: buffer = []
ClearBuffer ==
    /\ pc = "clear"
    /\ buffer' = <<>>
    /\ pc' = "finally"
    /\ UNCHANGED <<all_urls, urlsFileExists, conf, ckptFile, outFile,
                   start_index, end_index, processed_urls, idx, successful,
                   failed, driver, flushKind, existing, sessions, summary,
                   crashes, ioFails, leaks, nExtract, saves, lost, again,
                   sinkDurable, ckptPrev, outAtStart, ckptAtStart, lastItem,
                   interrupted, remaining, batch, still_failed, attempt,
                   ret_data, elapsed, already_refreshed, itemHist, waitHist,
                   status>>

(* ------------------------- process boundaries ------------------------- *)
\* main() returned: the process ends, its browsers with it
Exit ==
    /\ pc = "done"
    /\ pc' = "idle"
    /\ ResetLocals
    /\ sessions' = 0
    /\ ResetRun
    /\ UNCHANGED <<all_urls, urlsFileExists, conf, ckptFile, outFile, crashes,
                   ioFails, leaks, lost, again, sinkDurable, ckptPrev,
                   interrupted, remaining, batch, still_failed, attempt,
                   ret_data, elapsed, already_refreshed, itemHist, waitHist,
                   status>>

\* the result of an item is only in the buffer: it was extracted and no
\* append_results call has written it
Unflushed == IF pc \in {"save", "dumpckpt", "clear"} THEN {} ELSE Ids(buffer)

\* first position after `from` that holds identifier u
FirstPos(u, from) ==
    CHOOSE p \in (from + 1)..Len(all_urls) :
        /\ all_urls[p] = u
        /\ \A q \in (from + 1)..(p - 1) : all_urls[q] # u

\* the records of the buffer are in the result file and the checkpoint
\* that goes with them is not completely written
BetweenAppendAndSave == pc \in {"save", "dumpckpt"}

\* the process is killed while a run is in progress
Crash ==
    /\ pc \notin {"idle", "done"} /\ MayFail
    /\ crashes' = crashes + 1
    /\ lost' = { FirstPos(u, start_index) : u \in Unflushed }
    /\ interrupted' = IF BetweenAppendAndSave THEN Ids(buffer) ELSE {}
    /\ again' = ZeroCount
    /\ pc' = "idle"
    /\ ResetLocals
    /\ sessions' = 0
    /\ ResetRun
    /\ UNCHANGED <<all_urls, urlsFileExists, conf, ckptFile, outFile, ioFails,
                   leaks, sinkDurable, ckptPrev, remaining, batch, still_failed,
                   attempt, ret_data, elapsed, already_refreshed, itemHist,
                   waitHist, status>>

Next ==
    \/ StartNoFile \/ StartNothingToDo \/ StartBatch
    \/ Skip \/ BeginItem
    \/ CreateDriverOk \/ CreateDriverRaisesEarly \/ CreateDriverRaisesLate
    \/ Extract \/ Except \/ Finally \/ FinalFlush
    \/ AppendOpen \/ AppendOpenFails \/ AppendDump \/ AppendDumpFails
    \/ SaveOpen \/ SaveOpenFails \/ SaveDump \/ SaveDumpFails \/ ClearBuffer
    \/ Exit \/ Crash

Spec == Init /\ [][Next]_vars

\* the steps of a process that is not killed
Progress ==
    \/ StartNoFile \/ StartNothingToDo \/ StartBatch
    \/ Skip \/ BeginItem
    \/ CreateDriverOk \/ CreateDriverRaisesEarly \/ CreateDriverRaisesLate
    \/ Extract \/ Except \/ Finally \/ FinalFlush
    \/ AppendOpen \/ AppendOpenFails \/ AppendDump \/ AppendDumpFails
    \/ SaveOpen \/ SaveOpenFails \/ SaveDump \/ SaveDumpFails \/ ClearBuffer
    \/ Exit

\* main() is sequential code whose calls return (the waits of create_driver
\* and extract_url_data are bounded by timeouts): a process that is not
\* killed takes its next step
LiveSpec == Init /\ [][Next]_vars /\ WF_vars(Progress)

(* ========================= retry_failures.py ========================== *)
(* BATCH_SIZE is 10, max_retries 5, the challenge timeout 45 s and the     *)
(* sleep between polls 5 s in the source; the model runs the same code     *)
(* with fewer attempts and shorter timeouts, one a multiple of the sleep   *)
(* and one not.                                                            *)
RetrySetups ==
    { [urls |-> <<"a", "b">>, BATCH_SIZE |-> 2, max_retries |-> 2,
       timeout |-> 10, sleep |-> 5],
      [urls |-> <<"a">>,      BATCH_SIZE |-> 1, max_retries |-> 3,
       timeout |-> 12, sleep |-> 5],
      [urls |-> <<"a", "a">>, BATCH_SIZE |-> 1, max_retries |-> 2,
       timeout |-> 10, sleep |-> 5],
      [urls |-> <<>>,         BATCH_SIZE |-> 1, max_retries |-> 2,
       timeout |-> 10, sleep |-> 5] }
max_retries == conf.max_retries
timeout == conf.timeout
sleep == conf.sleep

\* seconds one reading of driver.title and driver.page_source takes
PollTimes == {0, 1}

\* the rendered document, as the field lookups of lines 323-343 find it:
\* per field the text of its element, or Absent when there is no element
RetryPages == { [h1 |-> Absent, h2 |-> "t",    content |-> Absent],
                [h1 |-> Absent, h2 |-> Absent, content |-> Absent],
                [h1 |-> "t",    h2 |-> Absent, content |-> " "] }

\* load_existing_results(): the urls of the records of the result file
load_existing_results == Ids(ReadExisting(outFile))

\* line 395
Remaining(urls, processed) == SelectSeq(urls, LAMBDA u : u \notin processed)

\* load_failed_urls(): [] when the file does not exist
load_failed_urls == IF urlsFileExists THEN all_urls ELSE <<>>

RetryUrl == remaining[idx]

\* line 347: the record returned once every attempt has failed
ExhaustedRecord(u) ==
    [url |-> u, h1 |-> "", h2 |-> "", content |-> "", error |-> NoError]

\* a missing element makes the whole attempt fail
FieldsRecord_strict(u, page) ==
    IF Absent \in {page.h1, page.h2, page.content}
    THEN [url |-> u, h1 |-> "", h2 |-> "", content |-> "",
          error |-> "element not found"]
    ELSE [url |-> u, h1 |-> page.h1, h2 |-> page.h2, content |-> page.content,
          error |-> NoError]

\* one lookup of lines 324-342: the exception of a missing element is
\* passed over and the value stays ""; a found element gives .text.strip()
Lookup(v) == IF v = Absent \/ v = " " THEN "" ELSE v

\* lines 323-343
FieldsRecord(u, page) ==
    [url |-> u, h1 |-> Lookup(page.h1), h2 |-> Lookup(page.h2),
     content |-> Lookup(page.content), error |-> NoError]

\* line 423
BatchFull(b) == Len(b) >= BATCH_SIZE

\* the batch-script variables while retry_failures.py runs
BatchRest ==
    /\ ckptFile = [st |-> "missing", last_index |-> 0, processed_urls |-> {}]
    /\ start_index = 0 /\ end_index = 0 /\ processed_urls = {}
    /\ buffer = <<>> /\ failed = 0 /\ flushKind = "none" /\ existing = <<>>
    /\ summary = NoSummary /\ crashes = 0
    /\ nExtract = ZeroCount /\ saves = <<>> /\ lost = {}
    /\ again = ZeroCount /\ sinkDurable = <<>> /\ ckptPrev = ZeroCheckpoint
    /\ outAtStart = outFile
    /\ ckptAtStart = ckptFile
    /\ lastItem = [pos |-> 0, path |-> "none"]
    /\ interrupted = {}

RetryInit ==
    /\ \E s \in RetrySetups :
         /\ all_urls = s.urls
         /\ conf = [BATCH_SIZE |-> s.BATCH_SIZE, max_retries |-> s.max_retries,
                    timeout |-> s.timeout, sleep |-> s.sleep]
    /\ urlsFileExists \in BOOLEAN
    /\ outFile = [st |-> "missing", recs |-> <<>>]
    /\ pc = "idle" /\ idx = 0 /\ successful = 0 /\ driver = FALSE
    /\ sessions = 0 /\ ioFails = 0 /\ leaks = 0
    /\ RetryRest
    /\ BatchRest

\* the locals of retry_failures.main() when no run is in progress
RetryResetLocals ==
    /\ remaining' = <<>> /\ batch' = <<>> /\ still_failed' = 0 /\ attempt' = 0
    /\ ret_data' = NoData /\ elapsed' = 0 /\ already_refreshed' = FALSE
    /\ idx' = 0 /\ successful' = 0 /\ driver' = FALSE
    /\ itemHist' = NoItem /\ waitHist' = NoWait

(* ------------------------------ main() -------------------------------- *)
\* lines 390-392: no work list
RetryStartNoUrls ==
    /\ pc = "idle" /\ load_failed_urls = <<>>
    /\ pc' = "r_done"
    /\ UNCHANGED <<all_urls, urlsFileExists, conf, ckptFile, outFile,
                   start_index, end_index, processed_urls, idx, buffer,
                   successful, failed, driver, flushKind, existing, sessions,
                   summary, crashes, ioFails, leaks, nExtract, saves, lost,
                   again, sinkDurable, ckptPrev, outAtStart, ckptAtStart,
                   lastItem, interrupted, remaining, batch, still_failed,
                   attempt, ret_data, elapsed, already_refreshed, itemHist,
                   waitHist, status>>

\* lines 394-403: every url has a record in the result file
RetryStartAllProcessed ==
    /\ pc = "idle" /\ load_failed_urls # <<>>
    /\ Remaining(load_failed_urls, load_existing_results) = <<>>
    /\ pc' = "r_done"
    /\ UNCHANGED <<all_urls, urlsFileExists, conf, ckptFile, outFile,
                   start_index, end_index, processed_urls, idx, buffer,
                   successful, failed, driver, flushKind, existing, sessions,
                   summary, crashes, ioFails, leaks, nExtract, saves, lost,
                   again, sinkDurable, ckptPrev, outAtStart, ckptAtStart,
                   lastItem, interrupted, remaining, batch, still_failed,
                   attempt, ret_data, elapsed, already_refreshed, itemHist,
                   waitHist, status>>

\* lines 394-407
RetryStartLoop ==
    /\ pc = "idle" /\ load_failed_urls # <<>>
    /\ Remaining(load_failed_urls, load_existing_results) # <<>>
    /\ remaining' = Remaining(load_failed_urls, load_existing_results)
    /\ batch' = <<>> /\ successful' = 0 /\ still_failed' = 0 /\ idx' = 0
    /\ pc' = "r_loop"
    /\ UNCHANGED <<all_urls, urlsFileExists, conf, ckptFile, outFile,
                   start_index, end_index, processed_urls, buffer, failed,
                   driver, flushKind, existing, sessions, summary, crashes,
                   ioFails, leaks, nExtract, saves, lost, again, sinkDurable,
                   ckptPrev, outAtStart, ckptAtStart, lastItem, interrupted,
                   attempt, ret_data, elapsed, already_refreshed, itemHist,
                   waitHist, status>>

\* lines 409-412
RetryBeginItem ==
    /\ pc = "r_loop" /\ idx < Len(remaining)
    /\ idx' = idx + 1
    /\ driver' = FALSE
    /\ itemHist' = [NoItem EXCEPT !.failed0 = still_failed,
                                  !.succ0 = successful]
    /\ waitHist' = NoWait
    /\ pc' = "r_create"
    /\ UNCHANGED <<all_urls, urlsFileExists, conf, ckptFile, outFile,
                   start_index, end_index, processed_urls, buffer, successful,
                   failed, flushKind, existing, sessions, summary, crashes,
                   ioFails, leaks, nExtract, saves, lost, again, sinkDurable,
                   ckptPrev, outAtStart, ckptAtStart, lastItem, interrupted,
                   remaining, batch, still_failed, attempt, ret_data, elapsed,
                   already_refreshed, status>>

\* line 413: create_driver() returns; extract_url_data starts its loop
RetryCreateDriverOk ==
    /\ pc = "r_create"
    /\ driver' = TRUE
    /\ sessions' = sessions + 1
    /\ attempt' = 0
    /\ itemHist' = [itemHist EXCEPT !.creates = @ + 1]
    /\ pc' = "r_attempt"
    /\ UNCHANGED <<all_urls, urlsFileExists, conf, ckptFile, outFile,
                   start_index, end_index, processed_urls, idx, buffer,
                   successful, failed, flushKind, existing, summary, crashes,
                   ioFails, leaks, nExtract, saves, lost, again, sinkDurable,
                   ckptPrev, outAtStart, ckptAtStart, lastItem, interrupted,
                   remaining, batch, still_failed, ret_data, elapsed,
                   already_refreshed, waitHist, status>>

\* line 413: create_driver() raises before a browser was started
RetryCreateDriverRaises ==
    /\ pc = "r_create"
    /\ itemHist' = [itemHist EXCEPT !.creates = @ + 1,
                                    !.lastExc = "session creation failed"]
    /\ pc' = "r_except"
    /\ UNCHANGED <<all_urls, urlsFileExists, conf, ckptFile, outFile,
                   start_index, end_index, processed_urls, idx, buffer,
                   successful, failed, driver, flushKind, existing, sessions,
                   summary, crashes, ioFails, leaks, nExtract, saves, lost,
                   again, sinkDurable, ckptPrev, outAtStart, ckptAtStart,
                   lastItem, interrupted, remaining, batch, still_failed,
                   attempt, ret_data, elapsed, already_refreshed, waitHist,
                   status>>

\* lines 257-274: stealth() raises after webdriver.Chrome() started the
\* browser; the exception is logged and raised again, the browser is not quit
RetryCreateDriverRaisesLate ==
    /\ pc = "r_create" /\ MayFail
    /\ leaks' = leaks + 1
    /\ sessions' = sessions + 1
    /\ itemHist' = [itemHist EXCEPT !.creates = @ + 1,
                                    !.lastExc = "session creation failed"]
    /\ pc' = "r_except"
    /\ UNCHANGED <<all_urls, urlsFileExists, conf, ckptFile, outFile,
                   start_index, end_index, processed_urls, idx, buffer,
                   successful, failed, driver, flushKind, existing, summary,
                   crashes, ioFails, nExtract, saves, lost, again, sinkDurable,
                   ckptPrev, outAtStart, ckptAtStart, lastItem, interrupted,
                   remaining, batch, still_failed, attempt, ret_data, elapsed,
                   already_refreshed, waitHist, status>>

(* -------------------------- extract_url_data -------------------------- *)
\* lines 344-346: the except clause of an attempt; the loop goes on
AttemptFails(msg) ==
    /\ attempt' = attempt + 1
    /\ pc' = "r_attempt"
    /\ itemHist' = [itemHist EXCEPT !.raised = @ + 1, !.lastExc = msg]

\* lines 308-314: driver.get and the wait for <body> succeed; line 316 calls
\* wait_for_cloudflare_clear, which reads the clock (lines 279-280)
RetryGetOk ==
    /\ pc = "r_attempt" /\ attempt < max_retries
    /\ itemHist' = [itemHist EXCEPT !.attempts = @ + 1]
    /\ elapsed' = 0
    /\ already_refreshed' = FALSE
    /\ waitHist' = NoWait
    /\ pc' = "w_check"
    /\ UNCHANGED <<all_urls, urlsFileExists, conf, ckptFile, outFile,
                   start_index, end_index, processed_urls, idx, buffer,
                   successful, failed, driver, flushKind, existing, sessions,
                   summary, crashes, ioFails, leaks, nExtract, saves, lost,
                   again, sinkDurable, ckptPrev, outAtStart, ckptAtStart,
                   lastItem, interrupted, remaining, batch, still_failed,
                   attempt, ret_data, status>>

\* lines 310-314: driver.get or the wait for <body> raises
RetryGetRaises ==
    /\ pc = "r_attempt" /\ attempt < max_retries
    /\ attempt' = attempt + 1
    /\ pc' = "r_attempt"
    /\ itemHist' = [itemHist EXCEPT !.attempts = @ + 1, !.raised = @ + 1,
                                    !.lastExc = "navigation timeout"]
    /\ UNCHANGED <<all_urls, urlsFileExists, conf, ckptFile, outFile,
                   start_index, end_index, processed_urls, idx, buffer,
                   successful, failed, driver, flushKind, existing, sessions,
                   summary, crashes, ioFails, leaks, nExtract, saves, lost,
                   again, sinkDurable, ckptPrev, outAtStart, ckptAtStart,
                   lastItem, interrupted, remaining, batch, still_failed,
                   ret_data, elapsed, already_refreshed, waitHist, status>>

\* line 281: the loop condition holds
WaitEnter ==
    /\ pc = "w_check" /\ elapsed < timeout
    /\ pc' = "w_poll"
    /\ UNCHANGED <<all_urls, urlsFileExists, conf, ckptFile, outFile,
                   start_index, end_index, processed_urls, idx, buffer,
                   successful, failed, driver, flushKind, existing, sessions,
                   summary, crashes, ioFails, leaks, nExtract, saves, lost,
                   again, sinkDurable, ckptPrev, outAtStart, ckptAtStart,
                   lastItem, interrupted, remaining, batch, still_failed,
                   attempt, ret_data, elapsed, already_refreshed, itemHist,
                   waitHist, status>>

\* the uncleared wait is not tested: the attempt goes on to the lookups
WaitTimeout_proceeds ==
    /\ pc = "w_check" /\ ~(elapsed < timeout)
    /\ waitHist' = [waitHist EXCEPT !.ret = "False"]
    /\ pc' = "r_fields"
    /\ UNCHANGED <<all_urls, urlsFileExists, conf, ckptFile, outFile,
                   start_index, end_index, processed_urls, idx, buffer,
                   successful, failed, driver, flushKind, existing, sessions,
                   summary, crashes, ioFails, leaks, nExtract, saves, lost,
                   again, sinkDurable, ckptPrev, outAtStart, ckptAtStart,
                   lastItem, interrupted, remaining, batch, still_failed,
                   attempt, ret_data, elapsed, already_refreshed, itemHist,
                   status>>

\* lines 281, 303-304, 316-317: the loop condition fails, the wait returns
\* False and extract_url_data raises TimeoutException
WaitTimeout ==
    /\ pc = "w_check" /\ ~(elapsed < timeout)
    /\ waitHist' = [waitHist EXCEPT !.ret = "False"]
    /\ attempt' = attempt + 1
    /\ pc' = "r_attempt"
    /\ itemHist' = [itemHist EXCEPT
                      !.raised = @ + 1,
                      !.lastExc = "Cloudflare challenge did not clear in time"]
    /\ UNCHANGED <<all_urls, urlsFileExists, conf, ckptFile, outFile,
                   start_index, end_index, processed_urls, idx, buffer,
                   successful, failed, driver, flushKind, existing, sessions,
                   summary, crashes, ioFails, leaks, nExtract, saves, lost,
                   again, sinkDurable, ckptPrev, outAtStart, ckptAtStart,
                   lastItem, interrupted, remaining, batch, still_failed,
                   ret_data, elapsed, already_refreshed, status>>

\* lines 282-293: a challenge phrase matches; sleep
WaitPollChallenge ==
    /\ pc = "w_poll"
    /\ \E d \in PollTimes : elapsed' = elapsed + d + sleep
    /\ pc' = IF already_refreshed THEN "w_check" ELSE "w_refresh"
    /\ UNCHANGED <<all_urls, urlsFileExists, conf, ckptFile, outFile,
                   start_index, end_index, processed_urls, idx, buffer,
                   successful, failed, driver, flushKind, existing, sessions,
                   summary, crashes, ioFails, leaks, nExtract, saves, lost,
                   again, sinkDurable, ckptPrev, outAtStart, ckptAtStart,
                   lastItem, interrupted, remaining, batch, still_failed,
                   attempt, ret_data, already_refreshed, itemHist, waitHist,
                   status>>

\* lines 282-291, 301: no phrase matches, the wait returns True
WaitPollClear ==
    /\ pc = "w_poll"
    /\ \E d \in PollTimes : elapsed' = elapsed + d
    /\ waitHist' = [waitHist EXCEPT !.ret = "True"]
    /\ pc' = "r_fields"
    /\ UNCHANGED <<all_urls, urlsFileExists, conf, ckptFile, outFile,
                   start_index, end_index, processed_urls, idx, buffer,
                   successful, failed, driver, flushKind, existing, sessions,
                   summary, crashes, ioFails, leaks, nExtract, saves, lost,
                   again, sinkDurable, ckptPrev, outAtStart, ckptAtStart,
                   lastItem, interrupted, remaining, batch, still_failed,
                   attempt, ret_data, already_refreshed, itemHist, status>>

\* lines 294-297, 300
WaitRefreshOk ==
    /\ pc = "w_refresh"
    /\ already_refreshed' = TRUE
    /\ waitHist' = [waitHist EXCEPT !.calls = @ + 1]
    /\ itemHist' = [itemHist EXCEPT !.refreshes = @ + 1]
    /\ pc' = "w_check"
    /\ UNCHANGED <<all_urls, urlsFileExists, conf, ckptFile, outFile,
                   start_index, end_index, processed_urls, idx, buffer,
                   successful, failed, driver, flushKind, existing, sessions,
                   summary, crashes, ioFails, leaks, nExtract, saves, lost,
                   again, sinkDurable, ckptPrev, outAtStart, ckptAtStart,
                   lastItem, interrupted, remaining, batch, still_failed,
                   attempt, ret_data, elapsed, status>>

\* lines 294-296, 298-300: driver.refresh() raises, the flag stays False
WaitRefreshRaises ==
    /\ pc = "w_refresh"
    /\ waitHist' = [waitHist EXCEPT !.calls = @ + 1]
    /\ itemHist' = [itemHist EXCEPT !.refreshes = @ + 1,
                                    !.refreshRaised = TRUE]
    /\ pc' = "w_check"
    /\ UNCHANGED <<all_urls, urlsFileExists, conf, ckptFile, outFile,
                   start_index, end_index, processed_urls, idx, buffer,
                   successful, failed, driver, flushKind, existing, sessions,
                   summary, crashes, ioFails, leaks, nExtract, saves, lost,
                   again, sinkDurable, ckptPrev, outAtStart, ckptAtStart,
                   lastItem, interrupted, remaining, batch, still_failed,
                   attempt, ret_data, elapsed, already_refreshed, status>>

\* lines 319-343: the lookups are done, the attempt returns its record
RetryFieldsReturn ==
    /\ pc = "r_fields"
    /\ \E page \in RetryPages :
         /\ ret_data' = FieldsRecord(RetryUrl, page)
         /\ itemHist' = [itemHist EXCEPT !.path = "returned", !.page = page]
    /\ pc' = "r_classify"
    /\ UNCHANGED <<all_urls, urlsFileExists, conf, ckptFile, outFile,
                   start_index, end_index, processed_urls, idx, buffer,
                   successful, failed, driver, flushKind, existing, sessions,
                   summary, crashes, ioFails, leaks, nExtract, saves, lost,
                   again, sinkDurable, ckptPrev, outAtStart, ckptAtStart,
                   lastItem, interrupted, remaining, batch, still_failed,
                   attempt, elapsed, already_refreshed, waitHist, status>>

\* lines 319-321: the second wait for <body> raises
RetryReconfirmRaises ==
    /\ pc = "r_fields"
    /\ attempt' = attempt + 1
    /\ pc' = "r_attempt"
    /\ itemHist' = [itemHist EXCEPT !.raised = @ + 1,
                                    !.lastExc = "navigation timeout"]
    /\ UNCHANGED <<all_urls, urlsFileExists, conf, ckptFile, outFile,
                   start_index, end_index, processed_urls, idx, buffer,
                   successful, failed, driver, flushKind, existing, sessions,
                   summary, crashes, ioFails, leaks, nExtract, saves, lost,
                   again, sinkDurable, ckptPrev, outAtStart, ckptAtStart,
                   lastItem, interrupted, remaining, batch, still_failed,
                   ret_data, elapsed, already_refreshed, waitHist, status>>

\* line 347: range(max_retries) is exhausted
RetryExhausted ==
    /\ pc = "r_attempt" /\ ~(attempt < max_retries)
    /\ ret_data' = ExhaustedRecord(RetryUrl)
    /\ itemHist' = [itemHist EXCEPT !.path = "exhausted"]
    /\ pc' = "r_classify"
    /\ UNCHANGED <<all_urls, urlsFileExists, conf, ckptFile, outFile,
                   start_index, end_index, processed_urls, idx, buffer,
                   successful, failed, driver, flushKind, existing, sessions,
                   summary, crashes, ioFails, leaks, nExtract, saves, lost,
                   again, sinkDurable, ckptPrev, outAtStart, ckptAtStart,
                   lastItem, interrupted, remaining, batch, still_failed,
                   attempt, elapsed, already_refreshed, waitHist, status>>

(* --------------------------- main(), go on ---------------------------- *)
\* lines 415-423
RetryClassify ==
    /\ pc = "r_classify"
    /\ IF HasContent(ret_data)
       THEN successful' = successful + 1 /\ still_failed' = still_failed
       ELSE still_failed' = still_failed + 1 /\ successful' = successful
    /\ batch' = Append(batch, ret_data)
    /\ pc' = IF BatchFull(Append(batch, ret_data)) THEN "r_save" ELSE "r_finally"
    /\ UNCHANGED <<all_urls, urlsFileExists, conf, ckptFile, outFile,
                   start_index, end_index, processed_urls, idx, buffer, failed,
                   driver, flushKind, existing, sessions, summary, crashes,
                   ioFails, leaks, nExtract, saves, lost, again, sinkDurable,
                   ckptPrev, outAtStart, ckptAtStart, lastItem, interrupted,
                   remaining, attempt, ret_data, elapsed, already_refreshed,
                   itemHist, waitHist, status>>

\* save_results(batch), lines 371-382, and line 425
RetrySave ==
    /\ pc = "r_save"
    /\ outFile' = [st |-> "ok", recs |-> Merge(ReadExisting(outFile), batch)]
    /\ batch' = <<>>
    /\ pc' = "r_finally"
    /\ UNCHANGED <<all_urls, urlsFileExists, conf, ckptFile, start_index,
                   end_index, processed_urls, idx, buffer, successful, failed,
                   driver, flushKind, existing, sessions, summary, crashes,
                   ioFails, leaks, nExtract, saves, lost, again, sinkDurable,
                   ckptPrev, outAtStart, ckptAtStart, lastItem, interrupted,
                   remaining, still_failed, attempt, ret_data, elapsed,
                   already_refreshed, itemHist, waitHist, status>>

\* lines 380-381 raise: open() failed and left the file as it was, or
\* json.dump failed and left it truncated; main's except clause catches it
RetrySaveRaises ==
    /\ pc = "r_save" /\ MayFail
    /\ ioFails' = ioFails + 1
    /\ \E torn \in BOOLEAN :
         outFile' = IF torn THEN [st |-> "corrupt", recs |-> <<>>] ELSE outFile
    /\ itemHist' = [itemHist EXCEPT !.lastExc = "write failed"]
    /\ pc' = "r_except"
    /\ UNCHANGED <<all_urls, urlsFileExists, conf, ckptFile, start_index,
                   end_index, processed_urls, idx, buffer, successful, failed,
                   driver, flushKind, existing, sessions, summary, crashes,
                   leaks, nExtract, saves, lost, again, sinkDurable, ckptPrev,
                   outAtStart, ckptAtStart, lastItem, interrupted, remaining,
                   batch, still_failed, attempt, ret_data, elapsed,
                   already_refreshed, waitHist, status>>

\* lines 426-436
RetryExcept ==
    /\ pc = "r_except"
    /\ still_failed' = still_failed + 1
    /\ batch' = Append(batch, ErrorRecord(RetryUrl, itemHist.lastExc))
    /\ itemHist' = [itemHist EXCEPT !.path = "except"]
    /\ pc' = "r_finally"
    /\ UNCHANGED <<all_urls, urlsFileExists, conf, ckptFile, outFile,
                   start_index, end_index, processed_urls, idx, buffer,
                   successful, failed, driver, flushKind, existing, sessions,
                   summary, crashes, ioFails, leaks, nExtract, saves, lost,
                   again, sinkDurable, ckptPrev, outAtStart, ckptAtStart,
                   lastItem, interrupted, remaining, attempt, ret_data, elapsed,
                   already_refreshed, waitHist, status>>

\* lines 437-443
RetryFinally ==
    /\ pc = "r_finally"
    /\ IF driver THEN sessions' = sessions - 1 ELSE sessions' = sessions
    /\ driver' = FALSE
    /\ pc' = "r_loop"
    /\ UNCHANGED <<all_urls, urlsFileExists, conf, ckptFile, outFile,
                   start_index, end_index, processed_urls, idx, buffer,
                   successful, failed, flushKind, existing, summary, crashes,
                   ioFails, leaks, nExtract, saves, lost, again, sinkDurable,
                   ckptPrev, outAtStart, ckptAtStart, lastItem, interrupted,
                   remaining, batch, still_failed, attempt, ret_data, elapsed,
                   already_refreshed, itemHist, waitHist, status>>

\* lines 445-454: the loop is over
RetryFinalSave ==
    /\ pc = "r_loop" /\ idx = Len(remaining)
    /\ IF batch # <<>>
       THEN outFile' = [st |-> "ok",
                        recs |-> Merge(ReadExisting(outFile), batch)]
       ELSE outFile' = outFile
    /\ batch' = <<>>
    /\ pc' = "r_done"
    /\ UNCHANGED <<all_urls, urlsFileExists, conf, ckptFile, start_index,
                   end_index, processed_urls, idx, buffer, successful, failed,
                   driver, flushKind, existing, sessions, summary, crashes,
                   ioFails, leaks, nExtract, saves, lost, again, sinkDurable,
                   ckptPrev, outAtStart, ckptAtStart, lastItem, interrupted,
                   remaining, still_failed, attempt, ret_data, elapsed,
                   already_refreshed, itemHist, waitHist, status>>

\* lines 445-446: the last save_results raises, main() ends with it
RetryFinalSaveRaises ==
    /\ pc = "r_loop" /\ idx = Len(remaining) /\ batch # <<>> /\ MayFail
    /\ ioFails' = ioFails + 1
    /\ \E torn \in BOOLEAN :
         outFile' = IF torn THEN [st |-> "corrupt", recs |-> <<>>] ELSE outFile
    /\ pc' = "r_done"
    /\ UNCHANGED <<all_urls, urlsFileExists, conf, ckptFile, start_index,
                   end_index, processed_urls, idx, buffer, successful, failed,
                   driver, flushKind, existing, sessions, summary, crashes,
                   leaks, nExtract, saves, lost, again, sinkDurable, ckptPrev,
                   outAtStart, ckptAtStart, lastItem, interrupted, remaining,
                   batch, still_failed, attempt, ret_data, elapsed,
                   already_refreshed, itemHist, waitHist, status>>

\* the process ends, its browsers with it
RetryExit ==
    /\ pc = "r_done"
    /\ pc' = "idle"
    /\ RetryResetLocals
    /\ sessions' = 0
    /\ UNCHANGED <<all_urls, urlsFileExists, conf, ckptFile, outFile,
                   start_index, end_index, processed_urls, buffer, failed,
                   flushKind, existing, summary, crashes, ioFails, leaks,
                   nExtract, saves, lost, again, sinkDurable, ckptPrev,
                   outAtStart, ckptAtStart, lastItem, interrupted, status>>

RetryNext ==
    \/ RetryStartNoUrls \/ RetryStartAllProcessed \/ RetryStartLoop
    \/ RetryBeginItem
    \/ RetryCreateDriverOk \/ RetryCreateDriverRaises
    \/ RetryCreateDriverRaisesLate
    \/ RetryGetOk \/ RetryGetRaises
    \/ WaitEnter \/ WaitTimeout \/ WaitPollChallenge \/ WaitPollClear
    \/ WaitRefreshOk \/ WaitRefreshRaises
    \/ RetryFieldsReturn \/ RetryReconfirmRaises \/ RetryExhausted
    \/ RetryClassify \/ RetrySave \/ RetrySaveRaises \/ RetryExcept
    \/ RetryFinally \/ RetryFinalSave \/ RetryFinalSaveRaises
    \/ RetryExit

RetrySpec == RetryInit /\ [][RetryNext]_vars

(* ========================== check_status.py =========================== *)
\* line 98
batch_size == 100

\* the lengths of the work list and the last_index values of the checkpoint
\* file check_status is run on
StatusTotals == {0, 1, 50, 99, 100, 101, 150, 200, 201}
StatusIndexes == {0, 1, 50, 99, 100, 101, 150, 200, 201, 250, 301}

\* the result files check_status is run on
StatusResultFiles ==
    { [st |-> "missing", recs |-> <<>>],
      [st |-> "corrupt", recs |-> <<>>],
      [st |-> "ok", recs |-> <<>>],
      [st |-> "ok",
       recs |-> << [url |-> "a", h1 |-> "t", h2 |-> "", content |-> "",
                    error |-> NoError],
                   [url |-> "a", h1 |-> "", h2 |-> "", content |-> "",
                    error |-> "boom"] >>] }

\* the checkpoint files check_status is run on
StatusCheckpointFiles ==
    { [st |-> "missing", last_index |-> 0, processed_urls |-> {}],
      [st |-> "corrupt", last_index |-> 0, processed_urls |-> {}] }
    \cup { [st |-> "ok", last_index |-> i,
            processed_urls |-> IF i = 0 THEN {} ELSE {"a"}] : i \in StatusIndexes }

\* the variables of the two schedulers while check_status.py runs
StatusRest ==
    /\ pc = "idle" /\ idx = 0 /\ successful = 0 /\ driver = FALSE
    /\ sessions = 0 /\ ioFails = 0 /\ leaks = 0
    /\ start_index = 0 /\ end_index = 0 /\ processed_urls = {}
    /\ buffer = <<>> /\ failed = 0 /\ flushKind = "none" /\ existing = <<>>
    /\ summary = NoSummary /\ crashes = 0
    /\ nExtract = ZeroCount /\ saves = <<>> /\ lost = {}
    /\ again = ZeroCount /\ sinkDurable = <<>> /\ ckptPrev = ZeroCheckpoint
    /\ outAtStart = outFile /\ ckptAtStart = ckptFile
    /\ lastItem = [pos |-> 0, path |-> "none"]
    /\ interrupted = {}
    /\ RetryRest

\* the scheduler's settings are those of retry_failures_batch.py, lines 37-38
StatusInit ==
    /\ \E n \in StatusTotals : all_urls = [i \in 1..n |-> "a"]
    /\ conf = [BATCH_SIZE |-> 100, SAVE_INTERVAL |-> 5]
    /\ urlsFileExists \in BOOLEAN
    /\ ckptFile \in StatusCheckpointFiles
    /\ outFile \in StatusResultFiles
    /\ StatusRest

\* lines 55-57
StatusNoFile ==
    /\ pc = "idle" /\ ~urlsFileExists
    /\ status' = [NoStatus EXCEPT !.ret = "no file"]
    /\ pc' = "s_done"
    /\ UNCHANGED <<all_urls, urlsFileExists, conf, ckptFile, outFile,
                   start_index, end_index, processed_urls, idx, buffer,
                   successful, failed, driver, flushKind, existing, sessions,
                   summary, crashes, ioFails, leaks, nExtract, saves, lost,
                   again, sinkDurable, ckptPrev, outAtStart, ckptAtStart,
                   lastItem, interrupted, remaining, batch, still_failed,
                   attempt, ret_data, elapsed, already_refreshed, itemHist,
                   waitHist>>

\* lines 59-60
StatusReadUrls ==
    /\ pc = "idle" /\ urlsFileExists
    /\ status' = [NoStatus EXCEPT !.total_urls = Len(all_urls)]
    /\ pc' = "s_checkpoint"
    /\ UNCHANGED <<all_urls, urlsFileExists, conf, ckptFile, outFile,
                   start_index, end_index, processed_urls, idx, buffer,
                   successful, failed, driver, flushKind, existing, sessions,
                   summary, crashes, ioFails, leaks, nExtract, saves, lost,
                   again, sinkDurable, ckptPrev, outAtStart, ckptAtStart,
                   lastItem, interrupted, remaining, batch, still_failed,
                   attempt, ret_data, elapsed, already_refreshed, itemHist,
                   waitHist>>

\* load_checkpoint(), lines 12-18, and lines 65-67: the file is missing or
\* json.load returns its contents
StatusLoadCheckpoint ==
    /\ pc = "s_checkpoint" /\ ckptFile.st # "corrupt"
    /\ LET checkpoint == IF ckptFile.st = "ok"
                         THEN [last_index |-> ckptFile.last_index,
                               processed_urls |-> ckptFile.processed_urls]
                         ELSE ZeroCheckpoint
       IN status' = [status EXCEPT
                       !.last_index = checkpoint.last_index,
                       !.processed_count = Cardinality(checkpoint.processed_urls)]
    /\ pc' = "s_results"
    /\ UNCHANGED <<all_urls, urlsFileExists, conf, ckptFile, outFile,
                   start_index, end_index, processed_urls, idx, buffer,
                   successful, failed, driver, flushKind, existing, sessions,
                   summary, crashes, ioFails, leaks, nExtract, saves, lost,
                   again, sinkDurable, ckptPrev, outAtStart, ckptAtStart,
                   lastItem, interrupted, remaining, batch, still_failed,
                   attempt, ret_data, elapsed, already_refreshed, itemHist,
                   waitHist>>

\* line 17: json.load raises on a file it cannot parse; nothing catches it
StatusLoadCheckpointRaises ==
    /\ pc = "s_checkpoint" /\ ckptFile.st = "corrupt"
    /\ status' = [status EXCEPT !.ret = "load_checkpoint raised"]
    /\ pc' = "s_done"
    /\ UNCHANGED <<all_urls, urlsFileExists, conf, ckptFile, outFile,
                   start_index, end_index, processed_urls, idx, buffer,
                   successful, failed, driver, flushKind, existing, sessions,
                   summary, crashes, ioFails, leaks, nExtract, saves, lost,
                   again, sinkDurable, ckptPrev, outAtStart, ckptAtStart,
                   lastItem, interrupted, remaining, batch, still_failed,
                   attempt, ret_data, elapsed, already_refreshed, itemHist,
                   waitHist>>

\* load_results(), lines 21-27, and lines 81-95
StatusLoadResults ==
    /\ pc = "s_results" /\ outFile.st # "corrupt"
    /\ LET results == IF outFile.st = "ok" THEN outFile.recs ELSE <<>>
           counts == count_success_failure(results)
       IN status' = [status EXCEPT !.successful = counts.successful,
                                   !.failed = counts.failed]
    /\ pc' = "s_estimate"
    /\ UNCHANGED <<all_urls, urlsFileExists, conf, ckptFile, outFile,
                   start_index, end_index, processed_urls, idx, buffer,
                   successful, failed, driver, flushKind, existing, sessions,
                   summary, crashes, ioFails, leaks, nExtract, saves, lost,
                   again, sinkDurable, ckptPrev, outAtStart, ckptAtStart,
                   lastItem, interrupted, remaining, batch, still_failed,
                   attempt, ret_data, elapsed, already_refreshed, itemHist,
                   waitHist>>

\* line 26: json.load raises
StatusLoadResultsRaises ==
    /\ pc = "s_results" /\ outFile.st = "corrupt"
    /\ status' = [status EXCEPT !.ret = "load_results raised"]
    /\ pc' = "s_done"
    /\ UNCHANGED <<all_urls, urlsFileExists, conf, ckptFile, outFile,
                   start_index, end_index, processed_urls, idx, buffer,
                   successful, failed, driver, flushKind, existing, sessions,
                   summary, crashes, ioFails, leaks, nExtract, saves, lost,
                   again, sinkDurable, ckptPrev, outAtStart, ckptAtStart,
                   lastItem, interrupted, remaining, batch, still_failed,
                   attempt, ret_data, elapsed, already_refreshed, itemHist,
                   waitHist>>

\* lines 97-117; // is the floor division, as \div is
StatusEstimate ==
    /\ pc = "s_estimate"
    /\ LET total_urls == status.total_urls
           last_index == status.last_index
           remains == total_urls - last_index
           batches_remaining == (remains + batch_size - 1) \div batch_size
           next_start == last_index + 1
           next_end == Min(last_index + batch_size, total_urls)
       IN status' =
            IF remains > 0
            THEN [status EXCEPT !.remaining = remains,
                                !.batches_remaining = batches_remaining,
                                !.next_start = next_start,
                                !.next_end = next_end,
                                !.next_size = next_end - next_start + 1,
                                !.ret = "next batch"]
            ELSE [status EXCEPT !.remaining = remains,
                                !.batches_remaining = batches_remaining,
                                !.ret = "all processed"]
    /\ pc' = "s_done"
    /\ UNCHANGED <<all_urls, urlsFileExists, conf, ckptFile, outFile,
                   start_index, end_index, processed_urls, idx, buffer,
                   successful, failed, driver, flushKind, existing, sessions,
                   summary, crashes, ioFails, leaks, nExtract, saves, lost,
                   again, sinkDurable, ckptPrev, outAtStart, ckptAtStart,
                   lastItem, interrupted, remaining, batch, still_failed,
                   attempt, ret_data, elapsed, already_refreshed, itemHist,
                   waitHist>>

\* the process ends
StatusExit ==
    /\ pc = "s_done"
    /\ status' = NoStatus
    /\ pc' = "idle"
    /\ UNCHANGED <<all_urls, urlsFileExists, conf, ckptFile, outFile,
                   start_index, end_index, processed_urls, idx, buffer,
                   successful, failed, driver, flushKind, existing, sessions,
                   summary, crashes, ioFails, leaks, nExtract, saves, lost,
                   again, sinkDurable, ckptPrev, outAtStart, ckptAtStart,
                   lastItem, interrupted, remaining, batch, still_failed,
                   attempt, ret_data, elapsed, already_refreshed, itemHist,
                   waitHist>>

StatusNext ==
    \/ StatusNoFile \/ StatusReadUrls
    \/ StatusLoadCheckpoint \/ StatusLoadCheckpointRaises
    \/ StatusLoadResults \/ StatusLoadResultsRaises
    \/ StatusEstimate \/ StatusExit

StatusSpec == StatusInit /\ [][StatusNext]_vars

\* the crash-free runs of retry_failures_batch.py until nothing remains:
\* each run starts at the saved last_index (line 449), returns at once when
\* nothing remains (line 460) and saves end_index (lines 465, 534)
RECURSIVE RunsNeeded(_, _)
RunsNeeded(last_index, total) ==
    IF NothingRemains(last_index, total)
    THEN 0
    ELSE 1 + RunsNeeded(EndIndex(last_index, total), total)

(* ======================= properties of the scheduler ================== *)
Positions == 1..Len(all_urls)

\* positions for which the current run has produced a record
Extracted == { p \in Positions : nExtract[p] > 0 }

\* the checkpoint as a load would return it now
Saved == load_checkpoint

\* the records a reader finds in the result file now
SinkRecs == ReadExisting(outFile)

\* the checkpoint the current run loaded
Loaded == LoadCheckpoint(ckptAtStart)

(* C1: idempotent resume.  Once the saved checkpoint's last_index is >= the
   length of the work list, a further run with that checkpoint goes from
   NotStarted straight to Done: it extracts nothing, opens no session, leaves
   the successful / failed counters at 0 and leaves the result file as it
   was.  (saves = <<>>: the run in progress, if any, is not the one that
   wrote that checkpoint.) *)
C1_IdempotentResume ==
    (/\ urlsFileExists
     /\ ckptFile.st = "ok" /\ ckptFile.last_index >= Len(all_urls)
     /\ saves = <<>>)
    => /\ pc \in {"idle", "done"}
       /\ Extracted = {}
       /\ successful = 0 /\ failed = 0
       /\ sessions = 0 /\ ~driver
       /\ buffer = <<>>
       /\ outFile = outAtStart
       /\ ckptFile = ckptAtStart

C1_Witness ==
    /\ pc = "done" /\ urlsFileExists /\ Len(all_urls) > 0
    /\ ckptFile.st = "ok" /\ ckptFile.last_index >= Len(all_urls)
    /\ saves = <<>>
    /\ start_index = ckptFile.last_index
    /\ Len(SinkRecs) > 0

(* C2: no lost work on crash.  After a single crash that hit while the
   results of some positions were only in the in-memory buffer (extracted,
   not yet written by a flush), each such position k is never skipped: as
   long as it has not been processed again, its identifier is in no
   processed set and the saved checkpoint has not passed it; the restarted
   run processes it again; and with that crash as the only fault it is
   processed exactly once more. *)
C2_NoLostWork ==
    crashes = 1 =>
      \A k \in lost :
        /\ again[k] = 0 =>
             /\ all_urls[k] \notin processed_urls
             /\ all_urls[k] \notin Saved.processed_urls
             /\ Saved.last_index < k
        /\ pc = "done" => again[k] >= 1
        /\ Faults = 1 => again[k] <= 1

C2_Witness ==
    /\ crashes = 1 /\ Faults = 1 /\ pc = "done"
    /\ \E k \in lost : again[k] = 1 /\ k > 1

(* C3: monotonic checkpoint.  Within one run the last_index values passed to
   the successive save_checkpoint calls (interval flushes, then the final
   save) never decrease, and none is below the last_index the run loaded. *)
C3_MonotonicCheckpoint ==
    \A i \in 1..Len(saves) :
       /\ saves[i] >= start_index
       /\ saves[i] >= Loaded.last_index
       /\ i > 1 => saves[i - 1] <= saves[i]

C3_Witness ==
    /\ Len(saves) >= 2
    /\ saves[1] < saves[Len(saves)]
    /\ pc = "done"

(* C4 as claimed: in every reachable state the processed_urls of the saved
   checkpoint contains every identifier that has a record in the result
   file, the window between the Sink append and the Checkpoint save
   included. *)
C4_Containment == Ids(SinkRecs) \subseteq Saved.processed_urls

\* a save_checkpoint call has just written its checkpoint completely
SaveCompleted ==
    /\ pc \in {"clear", "done"} /\ saves # <<>>
    /\ ckptFile.st = "ok"
    /\ ckptFile.last_index = saves[Len(saves)]

(* C4 amended: outside the window between a Sink append and the end of the
   Checkpoint save that follows it, and as long as no crash and no failed
   write has occurred, the saved processed_urls contains every identifier
   that has a record in the result file; and every checkpoint save that
   completes writes a processed_urls that contains the identifiers of the
   records flushed with it. *)
C4_ContainmentOutsideFlush ==
    /\ (crashes = 0 /\ ioFails = 0 /\ pc \notin {"save", "dumpckpt"})
         => Ids(SinkRecs) \subseteq Saved.processed_urls
    /\ SaveCompleted => Ids(buffer) \subseteq Saved.processed_urls

C4_Witness ==
    /\ crashes = 0 /\ ioFails = 0 /\ pc = "clear"
    /\ SaveCompleted
    /\ Ids(buffer) # {}
    /\ Ids(SinkRecs) = Ids(buffer)
    /\ Ids(SinkRecs) \subseteq Saved.processed_urls

(* C5: sink monotonic growth.  Across appends, crashes and restarts no
   record durably written to the result file is deleted or changed: outside
   a write in progress, the contents of the last completed write are a
   prefix of what the file holds (all writes succeeding). *)
C5_SinkMonotonicGrowth ==
    (pc # "dump" /\ ioFails = 0) => IsPrefix(sinkDurable, SinkRecs)

(* C6: atomic checkpoint save.  A load that follows a save interrupted by a
   crash returns the complete checkpoint saved before or the complete new
   one, and never a last_index smaller than the one saved before. *)
C6_AtomicSave ==
    (pc = "idle" /\ ioFails = 0) =>
       /\ \/ Saved = ckptPrev
          \/ Saved = [last_index |-> ckptFile.last_index,
                      processed_urls |-> ckptFile.processed_urls]
       /\ Saved.last_index >= ckptPrev.last_index

(* C7: checkpoint load tolerance.  A run that finds the checkpoint file
   missing or unparsable is not failed by load_checkpoint: it starts from
   the zero checkpoint, position 0 and an empty processed set (the set then
   holds only the identifiers this run has processed). *)
C7_LoadTolerance ==
    (pc # "idle" /\ urlsFileExists /\ ckptAtStart.st # "ok") =>
       /\ start_index = 0
       /\ processed_urls = { all_urls[p] : p \in Extracted }
       /\ Loaded = ZeroCheckpoint

C7_Witness ==
    /\ pc = "loop" /\ idx = 0 /\ urlsFileExists
    /\ ckptAtStart.st = "corrupt" /\ ckptAtStart.last_index > 0
    /\ start_index = 0 /\ processed_urls = {}

\* positions of the batch whose iteration is over
Finished ==
    { p \in (start_index + 1)..(start_index + idx) :
        ~(p = start_index + idx /\ pc \in {"create", "extract", "except"}) }

\* a position is skipped exactly when its identifier was in the loaded
\* checkpoint or stands at an earlier position of the same batch
SkipIffProcessed ==
    \A p \in Finished :
       nExtract[p] =
         IF \/ all_urls[p] \in Loaded.processed_urls
            \/ \E q \in (start_index + 1)..(p - 1) : all_urls[q] = all_urls[p]
         THEN 0 ELSE 1

\* records and counters come from the positions that were not skipped
SkipLeavesNoTrace ==
    /\ successful + failed = Cardinality(Extracted)
    /\ Len(buffer) <= Cardinality(Extracted)

\* the final save is made with end_index, past every position of the batch
CheckpointPassesBatch ==
    (pc = "done" /\ summary.logged) =>
       /\ saves[Len(saves)] = end_index
       /\ end_index = start_index + idx

(* C8: skip by identifier.  A position whose identifier is already in
   processed_urls is skipped without extraction and without a record, is
   not counted as processed, and the checkpoint still advances past it:
   the number of processed positions a run reports is the number of
   positions it did not skip (work list [a,b,a], batch size 2: the second
   run reports 0 processed). *)
C8_SkipByIdentifier ==
    /\ SkipIffProcessed
    /\ SkipLeavesNoTrace
    /\ CheckpointPassesBatch
    /\ (pc = "done" /\ summary.logged) =>
          summary.total_processed = Cardinality(Extracted)

(* C9: flush ordering.  A checkpoint is never saved while the result of an
   identifier in the saved processed_urls is still only in the in-memory
   buffer: when a checkpoint save has completed, every buffered record is
   in the result file. *)
C9_FlushOrdering ==
    SaveCompleted =>
       \A i \in 1..Len(buffer) :
          \E j \in 1..Len(SinkRecs) : SinkRecs[j] = buffer[i]

(* C10: item-level failure never aborts the run.  An exception raised while
   processing an item is caught at the item boundary: when the scheduler is
   back at the top of the loop there is exactly one record for the item,
   with empty fields and the error set, no session is open, and the next
   position is up. *)
C10_ItemFailureIsolated ==
    (pc = "loop" /\ lastItem.path = "except") =>
       /\ nExtract[lastItem.pos] = 1
       /\ start_index + idx = lastItem.pos
       /\ buffer # <<>>
       /\ buffer[Len(buffer)] =
             ErrorRecord(all_urls[lastItem.pos], "exception in create_driver")
       /\ ~driver
       /\ sessions = 0

(* C16: no session leak.  Every browser session opened for an item is
   closed before the next item starts or the run returns, also when an
   exception is raised after the browser was started, inside create_driver
   included: at the top of the loop and at the end of the run no session is
   open, and never more than one is. *)
C16_NoSessionLeak ==
    /\ sessions <= 1
    /\ pc \in {"loop", "done"} => sessions = 0

(* C17: flush at the save interval.  After every item iteration, whatever
   its outcome (success, empty, error record of the except clause), the
   buffer holds fewer than SAVE_INTERVAL results. *)
C17_FlushAtInterval ==
    pc = "loop" => Len(buffer) < SAVE_INTERVAL

(* C18: bounded loss on crash.  A crash discards the completed result of
   at most one item: at most one position whose result existed before the
   crash has to be processed again after the restart. *)
C18_BoundedLossOnCrash ==
    crashes >= 1 => Cardinality(lost) <= 1

\* identifiers with two or more records
DupIds(recs) ==
    { recs[i].url : i \in { k \in 1..Len(recs) :
                              \E j \in 1..Len(recs) :
                                 j # k /\ recs[j].url = recs[k].url } }

(* C19: sink idempotent on identifier.  Without a crash the result file
   never holds two records with the same identifier, duplicates in the
   work list included; after a crash it holds two records only for
   identifiers of the flush the crash cut between its Sink append and the
   end of its Checkpoint save (all writes succeeding). *)
C19_SinkIdempotentOnIdentifier ==
    ioFails = 0 =>
       /\ crashes = 0 => DupIds(SinkRecs) = {}
       /\ DupIds(SinkRecs) \subseteq interrupted

\* retry_failures.py, where `remaining` is filtered once from the result
\* file: no identifier gets two records (RetrySpec violates it with the work
\* list [a,a], no crash and no failed write)
RetryNoDuplicateRecords ==
    (ioFails = 0 /\ leaks = 0) => DupIds(SinkRecs) = {}

(* C20: a run-level precondition failure leaves the durable state
   untouched.  When the work list file is missing, or the work list is
   empty, or the loaded last_index is >= the length of the work list, the
   run returns before any extraction: it opens no session, saves no
   checkpoint, logs no batch summary and leaves the checkpoint file and the
   result file as they were. *)
C20_PreconditionFailureNoWrites ==
    (/\ pc # "idle"
     /\ \/ ~urlsFileExists
        \/ all_urls = <<>>
        \/ Loaded.last_index >= Len(all_urls))
    => /\ pc = "done"
       /\ Extracted = {} /\ saves = <<>>
       /\ sessions = 0 /\ buffer = <<>>
       /\ ~summary.logged
       /\ ckptFile = ckptAtStart
       /\ outFile = outAtStart

\* the run that returns finds a checkpoint at the end of the list and a
\* result file with records, and leaves both as they are
C20_Witness ==
    /\ pc = "done" /\ urlsFileExists /\ Len(all_urls) > 0 /\ saves = <<>>
    /\ Loaded.last_index >= Len(all_urls)
    /\ outFile.st = "ok" /\ Len(outFile.recs) > 0
    /\ ckptFile = ckptAtStart /\ outFile = outAtStart

\* the two other cases of the claim happen as well
C20_MissingFileReturns ==
    pc = "done" /\ ~urlsFileExists /\ Len(all_urls) > 0

C20_EmptyListReturns ==
    pc = "done" /\ urlsFileExists /\ all_urls = <<>> /\ saves = <<>>

\* the rule of the data model: some field is non-empty and no error is set
IsSuccessful(r) ==
    /\ r.h1 # "" \/ r.h2 # "" \/ r.content # ""
    /\ r.error = NoError

\* a step that buffers a record counts it by the rule
CountedByRule ==
    Len(buffer') = Len(buffer) + 1 =>
       IF IsSuccessful(buffer'[Len(buffer')])
       THEN successful' = successful + 1 /\ failed' = failed
       ELSE failed' = failed + 1 /\ successful' = successful

\* count_success_failure counts the records of the result file by the rule
SinkCountedByRule ==
    LET n == Cardinality({ i \in 1..Len(SinkRecs) : IsSuccessful(SinkRecs[i]) })
    IN count_success_failure(SinkRecs) =
          [successful |-> n, failed |-> Len(SinkRecs) - n]

(* C21: classification rule.  Every result is counted as successful iff at
   least one of h1, h2, content is non-empty and its error is unset, and as
   failed otherwise, by the counters of main() at the step that buffers it
   and by count_success_failure applied to the result file; no record that
   carries an error is counted successful. *)
C21_ClassificationRule ==
    /\ [][CountedByRule]_vars
    /\ [](SinkCountedByRule)
    /\ [](\A i \in 1..Len(buffer) :
             buffer[i].error # NoError => ~HasContent(buffer[i]))

C21_Witness ==
    /\ pc = "done" /\ successful = 1 /\ failed = 1
    /\ Len(SinkRecs) = 2
    /\ \E i \in 1..2 : SinkRecs[i].error # NoError
    /\ count_success_failure(SinkRecs) = [successful |-> 1, failed |-> 1]

\* save_checkpoint is writing: the fields of the file are its arguments
SaveInProgress == pc = "dumpckpt"

(* C25 as claimed: the processed_urls passed to save_checkpoint holds only
   URLs whose extraction was successful; a URL whose record of this flush is
   empty or carries an error is not in the set. *)
C25_ProcessedSuccessesOnly ==
    (SaveInProgress /\ Faults = 0) =>
       \A i \in 1..Len(buffer) :
          ~HasContent(buffer[i]) => buffer[i].url \notin ckptFile.processed_urls

(* C25 amended: the processed_urls passed to save_checkpoint is the set the
   run loaded plus the URL of every position the run has produced a record
   for, whatever the outcome (successful, empty, error). *)
C25_ProcessedEveryOutcome ==
    SaveInProgress =>
       /\ ckptFile.processed_urls =
             Loaded.processed_urls \cup { all_urls[p] : p \in Extracted }
       /\ Ids(buffer) \subseteq ckptFile.processed_urls

C25_Witness ==
    /\ SaveInProgress /\ Faults = 0 /\ Len(buffer) = 2
    /\ HasContent(buffer[1])
    /\ buffer[2].error # NoError
    /\ {buffer[1].url, buffer[2].url} \subseteq ckptFile.processed_urls

\* a run that logged its summary, all writes having succeeded, has saved
\* the end of its batch
BatchEndSaved ==
    (pc = "done" /\ summary.logged /\ ioFails = 0) =>
       /\ ckptFile.st = "ok"
       /\ Saved.last_index = Min(Loaded.last_index + BATCH_SIZE, Len(all_urls))

(* C26: run progress and termination.  Every run that starts a batch
   (loaded last_index < length of the work list) ends, whatever the
   outcomes of its items, unless the process is killed; when it ends, its
   writes having succeeded, the saved last_index is
   min(last_index + BATCH_SIZE, length); and repeated runs reach a saved
   last_index >= length, the nothing-remains state. *)
C26_RunProgress ==
    /\ []BatchEndSaved
    /\ (pc = "loop") ~> (pc \in {"done", "idle"})
    /\ urlsFileExists => <>(NothingRemains(Saved.last_index, Len(all_urls)))

C26_Witness ==
    /\ pc = "done" /\ summary.logged /\ Faults = 0
    /\ Len(all_urls) = 3 /\ BATCH_SIZE = 2 /\ Loaded.last_index = 0
    /\ successful = 1 /\ failed = 1
    /\ Saved.last_index = 2 /\ ckptFile.st = "ok"

(* C27: positions below the checkpoint are covered.  From the zero
   checkpoint and an empty result file, with crashes between any two steps
   and writes that succeed, in every reachable state: every position below
   the saved last_index has its url in the saved processed_urls and at
   least one record in the result file, and the saved last_index is at
   most the length of the work list.  Stated here for the states in which
   no run is in progress, the files being as a run or a crash left them. *)
C27_CoveredBelowCheckpoint ==
    (ioFails = 0 /\ pc = "idle") =>
       /\ Saved.last_index <= Len(all_urls)
       /\ \A p \in 1..Saved.last_index :
            /\ all_urls[p] \in Saved.processed_urls
            /\ all_urls[p] \in Ids(SinkRecs)

(* ==================== properties of retry_failures.py ================= *)
(* C11: retry exhaustion result.  For an item every attempt of which
   raised, max_retries attempts having been made, extract_url_data yields a
   record with all fields empty and error set to the message of the last
   exception; the run goes on to the next position and the failed counter
   has grown by exactly 1 for the item. *)
C11_RetryExhaustionResult ==
    /\ (pc = "r_classify" /\ itemHist.raised = max_retries) =>
          ret_data = ErrorRecord(RetryUrl, itemHist.lastExc)
    /\ (pc = "r_loop" /\ itemHist.path = "exhausted") =>
          /\ still_failed = itemHist.failed0 + 1
          /\ ~driver

\* the failures section 7 of the design lists as retryable
TransientFailures ==
    { "navigation timeout", "Cloudflare challenge did not clear in time",
      "session creation failed" }

\* the record of the item in progress is in the batch or in the result file
ItemHasRecord ==
    \/ \E i \in 1..Len(batch) : batch[i].url = RetryUrl
    \/ RetryUrl \in Ids(SinkRecs)

(* C12: bounded retry of transient failures.  No item is attempted more
   than max_retries times; the first attempt that completes returns its
   record at once; an item given up because of a transient failure
   (navigation timeout, challenge-wait timeout, session-creation failure)
   has been tried max_retries times; and exhaustion yields a record for the
   item, the run going on. *)
C12_BoundedRetry ==
    /\ itemHist.attempts <= max_retries
    /\ itemHist.path = "returned" => itemHist.raised = itemHist.attempts - 1
    /\ (pc = "r_finally" /\ itemHist.path = "exhausted") => ItemHasRecord
    /\ (/\ itemHist.path \in {"exhausted", "except"}
        /\ itemHist.lastExc \in TransientFailures)
         => \/ itemHist.attempts = max_retries
            \/ itemHist.creates = max_retries

(* C13: challenge loop time bound.  When wait_for_cloudflare_clear returns
   False, for a session that matched a challenge phrase at every poll, no
   more than timeout seconds have passed since it started. *)
C13_ChallengeLoopTimeBound ==
    waitHist.ret = "False" => elapsed <= timeout

(* C14: at most one refresh per challenge wait.  During one call of
   wait_for_cloudflare_clear driver.refresh() is called at most once, a
   session whose refresh call raises included. *)
C14_OneRefreshPerWait == waitHist.calls <= 1

(* C15: at most one refresh per item.  Over all the attempts and all the
   challenge waits of one work item the page is refreshed at most once
   (every refresh call returning normally). *)
C15_OneRefreshPerItem ==
    ~itemHist.refreshRaised => itemHist.refreshes <= 1

Fields == {"h1", "h2", "content"}

(* C22: field absence is not failure.  When the attempt that returns found
   no element for a field, that field's value is the empty string, no error
   is set, the lookup raised nothing the retry loop saw (no further
   attempt), every other field has the value of its own lookup, and the
   item is counted successful iff some field is non-empty. *)
C22_FieldAbsenceNotFailure ==
    (/\ itemHist.path = "returned"
     /\ pc \in {"r_classify", "r_save", "r_finally", "r_loop"})
    => /\ \A f \in Fields :
             /\ itemHist.page[f] = Absent => ret_data[f] = ""
             /\ ret_data[f] = Lookup(itemHist.page[f])
       /\ ret_data.error = NoError
       /\ itemHist.raised = itemHist.attempts - 1
       /\ pc # "r_classify" =>
             IF \E f \in Fields : Lookup(itemHist.page[f]) # ""
             THEN /\ successful = itemHist.succ0 + 1
                  /\ still_failed = itemHist.failed0
             ELSE /\ successful = itemHist.succ0
                  /\ still_failed = itemHist.failed0 + 1

C22_Witness ==
    /\ pc = "r_finally" /\ itemHist.path = "returned"
    /\ itemHist.page.h1 = Absent /\ itemHist.page.h2 = "t"
    /\ ret_data.h1 = "" /\ ret_data.h2 = "t" /\ ret_data.error = NoError
    /\ successful = itemHist.succ0 + 1

(* C23: no extraction behind a challenge.  The field lookups of an attempt
   run only after wait_for_cloudflare_clear returned True in that attempt;
   an attempt whose wait returned False raises instead, which the retry
   loop counts as one more failed attempt with the challenge message. *)
C23_NoExtractionBehindChallenge ==
    /\ pc = "r_fields" => waitHist.ret = "True"
    /\ (itemHist.path = "returned" /\ pc = "r_classify")
         => waitHist.ret = "True"
    /\ (waitHist.ret = "False" /\ pc = "r_attempt") =>
          /\ itemHist.raised >= 1
          /\ attempt = itemHist.raised
          /\ itemHist.path = "none"

C23_Witness ==
    /\ pc = "r_attempt" /\ waitHist.ret = "False"
    /\ itemHist.lastExc = "Cloudflare challenge did not clear in time"
    /\ attempt = 1 /\ attempt < max_retries
    /\ itemHist.path = "none"

(* C24: fresh session per attempt.  Every attempt of an item runs on a
   session created for it: an item never has more attempts than
   create_driver calls, and no session is open when an item begins. *)
C24_FreshSessionPerAttempt ==
    /\ itemHist.attempts <= itemHist.creates
    /\ (pc = "r_create" /\ leaks = 0) => sessions = 0

(* C28: one record and one count per item.  Every item that is not skipped
   adds exactly one record to the buffer and increments exactly one of the
   counters successful / failed, also when a flush triggered by that item
   raises.  Stated here for retry_failures.py at the item boundary: the
   item just finished has raised the two counters together by one, and the
   batch holds no more records than items were handled. *)
C28_OneRecordOneCountPerItem ==
    (pc = "r_loop" /\ itemHist.path # "none") =>
       /\ (successful - itemHist.succ0) + (still_failed - itemHist.failed0) = 1
       /\ Len(batch) <= idx

(* ==================== properties of check_status.py ================== *)
\* what check_status printed agrees with the scheduler
StatusAgrees ==
    /\ status.batches_remaining = RunsNeeded(status.last_index, status.total_urls)
    /\ status.ret = "next batch" =>
         status.next_size =
            EndIndex(status.last_index, status.total_urls) - status.last_index

(* C29: the status checker agrees with the scheduler.  For every checkpoint
   last_index and work list length, the 'Batches Remaining' value check_status
   prints equals the number of crash-free runs of the batch scheduler still
   needed until last_index >= total, and the next-batch size it prints
   equals the number of positions the next run covers. *)
C29_StatusAgreesWithScheduler ==
    (pc = "s_done" /\ status.ret \in {"next batch", "all processed"}) =>
       StatusAgrees

\* the same on the checkpoints the scheduler saves for this work list
C29_AgreesUpToTotal ==
    (/\ pc = "s_done" /\ status.ret \in {"next batch", "all processed"}
     /\ status.last_index <= status.total_urls) => StatusAgrees

(* C30: the status checker tolerates a bad checkpoint.  check_status's
   load_checkpoint treats a checkpoint file that is missing or cannot be
   parsed as the zero checkpoint and never raises: it returns what the
   scheduler's load_checkpoint returns. *)
C30_StatusToleratesBadCheckpoint ==
    /\ status.ret # "load_checkpoint raised"
    /\ pc = "s_results" =>
         /\ status.last_index = load_checkpoint.last_index
         /\ status.processed_count = Cardinality(load_checkpoint.processed_urls)

====
